---------------------------- MODULE Spec2Model ----------------------------
(***************************************************************************)
(* The variable-mapping wizard of src/app.py as a state machine.           *)
(*                                                                         *)
(* The program is a Streamlit script: every user interaction re-runs the   *)
(* whole script top to bottom against st.session_state.  One action of     *)
(* this module is one interaction together with the script run it          *)
(* triggers.  The state is st.session_state (step, project_type,           *)
(* imported_config, selected_sources, selected_variable_ids, export_table) *)
(* plus what the last run left on the screen: which step was rendered,     *)
(* which buttons were shown and enabled, and the values of the widgets.    *)
(*                                                                         *)
(* Text that the program inspects character by character (variable names:  *)
(* strip(), lower()) is a tuple of one-character strings.  Text that is    *)
(* only stored, tested for emptiness or copied is an ordinary string.      *)
(***************************************************************************)
EXTENDS Integers, Sequences, FiniteSets, TLC

(***************************************************************************)
(* Bounds of the model.                                                    *)
(***************************************************************************)
\* most variables ticked at step 3 by hand
MaxSelected == 2
\* most rows of the export table for which the add form is still submitted
MaxRows == 3

(***************************************************************************)
(* State.                                                                  *)
(***************************************************************************)
VARIABLES
  \* st.session_state
  step, project_type, imported_config, selected_sources,
  selected_variable_ids, export_table,
  \* what the last script run rendered
  screen,           \* the step whose branch was rendered
  back_shown,       \* the Back button was rendered
  next_enabled,     \* the Next button of the screen was rendered enabled
  uploader_shown,   \* the file uploader was rendered
  uploaded_file,    \* the file held by the file uploader, or None
  boxes_shown,      \* ids whose step 3 checkbox var_<id> was rendered
  boxes_checked,    \* ids whose checkbox var_<id> is ticked
  delete_shown,     \* the delete multiselect and button were rendered
  delete_options,   \* the options of the delete multiselect
  to_delete,        \* the value of the delete multiselect
  csv_data,         \* the data of the download button, or None
  message,          \* what the last run reported
  crashed,          \* the last run ended in an uncaught exception
  last              \* the interaction the last run handled

session ==
  <<step, project_type, imported_config, selected_sources,
    selected_variable_ids, export_table>>

rendered ==
  <<screen, back_shown, next_enabled, uploader_shown, uploaded_file,
    boxes_shown, boxes_checked, delete_shown, delete_options, to_delete,
    csv_data, message, crashed, last>>

vars == <<session, rendered>>

(***************************************************************************)
(* Python text primitives.                                                 *)
(***************************************************************************)
UpperLetters ==
  <<"A", "B", "C", "D", "E", "F", "G", "H", "I", "J", "K", "L", "M",
    "N", "O", "P", "Q", "R", "S", "T", "U", "V", "W", "X", "Y", "Z">>

LowerLetters ==
  <<"a", "b", "c", "d", "e", "f", "g", "h", "i", "j", "k", "l", "m",
    "n", "o", "p", "q", "r", "s", "t", "u", "v", "w", "x", "y", "z">>

WhiteSpace == {" ", "\t", "\n"}

UpperSet == {UpperLetters[i] : i \in DOMAIN UpperLetters}

\* str.lower() on one character
LowerChar(c) ==
  IF c \in UpperSet
  THEN LowerLetters[CHOOSE i \in DOMAIN UpperLetters : UpperLetters[i] = c]
  ELSE c

\* str.lower()
StrLower(s) == [i \in 1..Len(s) |-> LowerChar(s[i])]

RECURSIVE LStrip(_)
LStrip(s) ==
  IF s # <<>> /\ Head(s) \in WhiteSpace THEN LStrip(Tail(s)) ELSE s

RECURSIVE RStrip(_)
RStrip(s) ==
  IF s # <<>> /\ s[Len(s)] \in WhiteSpace
  THEN RStrip(SubSeq(s, 1, Len(s) - 1))
  ELSE s

\* str.strip()
StrStrip(s) == RStrip(LStrip(s))

(***************************************************************************)
(* pandas missing values.  NaN is the missing value of a character-tuple   *)
(* cell, NaNCell the missing value of a plain-string cell.                 *)
(***************************************************************************)
NaN == <<"NaN">>

NaNCell == "<missing>"

\* str(v) of a cell of the Variable column: str(float('nan')) is 'nan'
Str(v) == IF v = NaN THEN <<"n", "a", "n">> ELSE v

\* field texts that pandas.read_csv turns into a missing value (a part of
\* its default na_values list)
NaStrings ==
  {<<>>,
   <<"N", "A">>,
   <<"N", "/", "A">>,
   <<"N", "a", "N">>,
   <<"n", "a", "n">>,
   <<"n", "u", "l", "l">>,
   <<"N", "U", "L", "L">>,
   <<"N", "o", "n", "e">>,
   <<"n", "/", "a">>,
   <<"<", "N", "A", ">">>}

NaTexts == {"", "NA", "N/A", "NaN", "nan", "null", "NULL", "None", "n/a", "<NA>"}

\* Columns whose cells are character tuples
TupleColumns == {"Variable"}

ParseCell(col, text) ==
  IF col \in TupleColumns
  THEN (IF text \in NaStrings THEN NaN ELSE text)
  ELSE (IF text \in NaTexts THEN NaNCell ELSE text)

WriteCell(col, v) ==
  IF col \in TupleColumns
  THEN (IF v = NaN THEN <<>> ELSE v)
  ELSE (IF v = NaNCell THEN "" ELSE v)

(***************************************************************************)
(* Small helpers on sequences and sets.                                    *)
(***************************************************************************)
Range(s) == {s[i] : i \in DOMAIN s}

Min(a, b) == IF a < b THEN a ELSE b

Max(a, b) == IF a > b THEN a ELSE b

\* the orders in which a Python set of the elements S can be iterated
Orders(S) ==
  {o \in [1..Cardinality(S) -> S] :
     \A i, j \in 1..Cardinality(S) : i # j => o[i] # o[j]}

(***************************************************************************)
(* The catalogue.                                                          *)
(***************************************************************************)
VARIABLES_CATALOGUE ==
  <<
    [id |-> "hr-001",
     name |-> <<"H", "e", "a", "r", "t", " ", "R", "a", "t", "e">>,
     organ_system |-> "Cardiology", group |-> "Heart",
     epic_id |-> "E-HR-001", pdms_id |-> "P-HR-001", unit |-> "bpm"],
    [id |-> "bp-001",
     name |-> <<"B", "l", "o", "o", "d", " ", "P", "r", "e", "s", "s", "u", "r", "e">>,
     organ_system |-> "Cardiology", group |-> "Heart",
     epic_id |-> "E-BP-001", pdms_id |-> "P-BP-001", unit |-> "mmHg"],
    [id |-> "co-001",
     name |-> <<"C", "a", "r", "d", "i", "a", "c", " ", "O", "u", "t", "p", "u", "t">>,
     organ_system |-> "Cardiology", group |-> "Heart",
     epic_id |-> "E-CO-001", pdms_id |-> "P-CO-001", unit |-> "L/min"],
    [id |-> "qt-001",
     name |-> <<"Q", "T", " ", "I", "n", "t", "e", "r", "v", "a", "l">>,
     organ_system |-> "Cardiology", group |-> "ECG",
     epic_id |-> "E-QT-001", pdms_id |-> "P-QT-001", unit |-> "ms"],
    [id |-> "spo2-001",
     name |-> <<"S", "p", "O", "2">>,
     organ_system |-> "Respiratory", group |-> "Lungs",
     epic_id |-> "E-SPO2-001", pdms_id |-> "P-SPO2-001", unit |-> "%"],
    [id |-> "rr-001",
     name |-> <<"R", "e", "s", "p", "i", "r", "a", "t", "o", "r", "y", " ", "R", "a", "t", "e">>,
     organ_system |-> "Respiratory", group |-> "Lungs",
     epic_id |-> "E-RR-001", pdms_id |-> "P-RR-001", unit |-> "breaths/min"],
    [id |-> "gcs-001",
     name |-> <<"G", "l", "a", "s", "g", "o", "w", " ", "C", "o", "m", "a", " ", "S", "c", "a", "l", "e">>,
     organ_system |-> "Neurology", group |-> "Brain",
     epic_id |-> "E-GCS-001", pdms_id |-> "P-GCS-001", unit |-> "score"],
    [id |-> "mf-epic-001",
     name |-> <<"M", "o", "t", "o", "r", " ", "F", "u", "n", "c", "t", "i", "o", "n", " ", "(", "E", "P", "I", "C", " ", "o", "n", "l", "y", ")">>,
     organ_system |-> "Neurology", group |-> "Motor",
     epic_id |-> "E-MF-001", pdms_id |-> "", unit |-> "score"],
    [id |-> "mf-pdms-001",
     name |-> <<"M", "o", "t", "o", "r", " ", "F", "u", "n", "c", "t", "i", "o", "n", " ", "(", "P", "D", "M", "S", " ", "o", "n", "l", "y", ")">>,
     organ_system |-> "Neurology", group |-> "Motor",
     epic_id |-> "", pdms_id |-> "P-MF-001", unit |-> "score"]
  >>

CATALOGUE_DF == VARIABLES_CATALOGUE

CatalogueIds == {CATALOGUE_DF[i].id : i \in DOMAIN CATALOGUE_DF}

\* CATALOGUE_DF[CATALOGUE_DF["id"] == vid].iloc[0]
CatalogueRow(vid) ==
  CATALOGUE_DF[CHOOSE i \in DOMAIN CATALOGUE_DF : CATALOGUE_DF[i].id = vid]

(***************************************************************************)
(* Data frames: a sequence of column names and a sequence of rows, each    *)
(* row a function from the column names to cells.                          *)
(***************************************************************************)
None == [none |-> TRUE]

ExportColumns ==
  <<"Variable", "Source", "ID", "Unit", "Organ_System", "Group", "Status">>

\* the columns of the table init_state() creates
InitColumns ==
  <<"Variable", "Source", "ID", "Unit", "Organ System", "Group", "Status">>

\* value of a missing cell of column col
Missing(col) == IF col \in TupleColumns THEN NaN ELSE NaNCell

\* df.empty
DfEmpty(df) == df.rows = <<>> \/ df.columns = <<>>

\* df["Variable"].tolist()
VariableColumn(df) == [i \in DOMAIN df.rows |-> df.rows[i]["Variable"]]

\* pd.DataFrame(rows) for a list of dicts that all have the keys `keys`
DataFrameOf(rows, keys) ==
  IF rows = <<>> THEN [columns |-> <<>>, rows |-> <<>>]
  ELSE [columns |-> keys, rows |-> rows]

\* pd.concat([df, pd.DataFrame([new_row])], ignore_index=True): the union
\* of the columns, the rows of df first, cells of absent columns missing
Concat(df, new_row, keys) ==
  LET cols == df.columns \o SelectSeq(keys, LAMBDA c : c \notin Range(df.columns))
      Reindex(r) == [c \in Range(cols) |->
                       IF c \in DOMAIN r THEN r[c] ELSE Missing(c)]
  IN  [columns |-> cols,
       rows |-> [i \in DOMAIN df.rows |-> Reindex(df.rows[i])]
                \o <<Reindex(new_row)>>]

\* df.to_csv(index=False): a header line and one record per row
ToCsv(df) ==
  [ok |-> TRUE,
   header |-> df.columns,
   records |-> [i \in DOMAIN df.rows |->
                  [c \in Range(df.columns) |-> WriteCell(c, df.rows[i][c])]]]

\* pd.read_csv(file) of a file that parses
ReadCsv(file) ==
  [columns |-> file.header,
   rows |-> [i \in DOMAIN file.records |->
               [c \in Range(file.header) |-> ParseCell(c, file.records[i][c])]]]

(***************************************************************************)
(* Session-state helpers and the catalogue filter.                         *)
(***************************************************************************)
go_next(s) == Min(s + 1, 4)

\* faulty variant: Back returns to the first step
go_back_to_start(s) == 1

go_back(s) == Max(s - 1, 1)

\* faulty variant: with both sources selected a row needs both identifiers
filter_catalogue_both_required(sources) ==
  LET epic == sources.EPIC
      pdms == sources.PDMS
  IN  IF epic /\ pdms
      THEN SelectSeq(CATALOGUE_DF, LAMBDA r : r.epic_id # "" /\ r.pdms_id # "")
      ELSE IF epic /\ ~pdms
      THEN SelectSeq(CATALOGUE_DF, LAMBDA r : r.epic_id # "")
      ELSE IF pdms /\ ~epic
      THEN SelectSeq(CATALOGUE_DF, LAMBDA r : r.pdms_id # "")
      ELSE CATALOGUE_DF

filter_catalogue_by_sources(sources) ==
  LET epic == sources.EPIC
      pdms == sources.PDMS
  IN  IF epic /\ pdms
      THEN SelectSeq(CATALOGUE_DF, LAMBDA r : r.epic_id # "" \/ r.pdms_id # "")
      ELSE IF epic /\ ~pdms
      THEN SelectSeq(CATALOGUE_DF, LAMBDA r : r.epic_id # "")
      ELSE IF pdms /\ ~epic
      THEN SelectSeq(CATALOGUE_DF, LAMBDA r : r.pdms_id # "")
      ELSE CATALOGUE_DF

IdsOf(df) == {df[i].id : i \in DOMAIN df}

(***************************************************************************)
(* Step 1: pre-selection by name from the imported configuration.          *)
(***************************************************************************)
\* imported_config["Variable"] raises KeyError without that column
HasVariableColumn(config) == "Variable" \in Range(config.columns)

\* faulty variant: the imported names are lower-cased but not stripped
imported_names_unstripped(config) ==
  {StrLower(Str(v)) : v \in Range(VariableColumn(config))}

imported_names(config) ==
  {StrLower(StrStrip(Str(v))) : v \in Range(VariableColumn(config))}

preselected_ids(config) ==
  {CATALOGUE_DF[i].id : i \in
     {j \in DOMAIN CATALOGUE_DF :
        StrLower(CATALOGUE_DF[j].name) \in imported_names(config)}}

(***************************************************************************)
(* Step 3: the export row of a selected catalogue variable.                *)
(***************************************************************************)
\* faulty variant: the EPIC branch is tested before the Both branch
to_export_row_epic_first(row) ==
  LET has_epic == row.epic_id # ""
      has_pdms == row.pdms_id # ""
      source == IF has_epic THEN "EPIC"
                ELSE IF has_pdms THEN "PDMS"
                ELSE IF has_epic /\ has_pdms THEN "Both"
                ELSE "-"
      id_code == IF has_epic THEN row.epic_id
                 ELSE IF has_pdms THEN row.pdms_id
                 ELSE IF has_epic /\ has_pdms
                 THEN row.epic_id \o " / " \o row.pdms_id
                 ELSE "-"
  IN  [Variable |-> row.name,
       Source |-> source,
       ID |-> id_code,
       Unit |-> row.unit,
       Organ_System |-> row.organ_system,
       Group |-> row.group,
       Status |-> "Published"]

\* the dict appended to rows for the catalogue row `row`
to_export_row(row) ==
  LET has_epic == row.epic_id # ""
      has_pdms == row.pdms_id # ""
      source == IF has_epic /\ has_pdms THEN "Both"
                ELSE IF has_epic THEN "EPIC"
                ELSE IF has_pdms THEN "PDMS"
                ELSE "-"
      id_code == IF has_epic /\ has_pdms
                 THEN row.epic_id \o " / " \o row.pdms_id
                 ELSE IF has_epic THEN row.epic_id
                 ELSE IF has_pdms THEN row.pdms_id
                 ELSE "-"
  IN  [Variable |-> row.name,
       Source |-> source,
       ID |-> id_code,
       Unit |-> row.unit,
       Organ_System |-> row.organ_system,
       Group |-> row.group,
       Status |-> "Published"]

export_row(vid) == to_export_row(CatalogueRow(vid))

\* faulty variant: the rows are keyed like the columns of the initial table
build_export_table_init_columns(order) ==
  DataFrameOf(
    [i \in DOMAIN order |->
       [c \in Range(InitColumns) |->
          IF c = "Organ System" THEN export_row(order[i])["Organ_System"]
          ELSE export_row(order[i])[c]]],
    InitColumns)

\* faulty variant: the new rows are appended to the table of the session
build_export_table_append(order) ==
  [columns |-> ExportColumns,
   rows |-> [i \in DOMAIN export_table.rows |->
               [c \in Range(ExportColumns) |->
                  IF c \in DOMAIN export_table.rows[i]
                  THEN export_table.rows[i][c] ELSE Missing(c)]]
            \o [i \in DOMAIN order |-> export_row(order[i])]]

\* the table built by the step 3 Next handler; order is the order in which
\* the set selected_ids is iterated
build_export_table(order) ==
  DataFrameOf([i \in DOMAIN order |-> export_row(order[i])], ExportColumns)

(***************************************************************************)
(* Step 4: adding and deleting rows.                                       *)
(***************************************************************************)
\* `if not var_name or not var_id`
add_rejected(f) == f.var_name = <<>> \/ f.var_id = ""

new_row(f) ==
  [Variable |-> f.var_name,
   Source |-> f.source,
   ID |-> f.var_id,
   Unit |-> f.unit,
   Organ_System |-> IF f.organ_system = "" THEN "General" ELSE f.organ_system,
   Group |-> IF f.group = "" THEN "General" ELSE f.group,
   Status |-> "New"]

\* faulty variant: the new row is put in front of the table
add_variable_in_front(table, f) ==
  LET t == Concat(table, new_row(f), ExportColumns)
  IN  [t EXCEPT !.rows = <<t.rows[Len(t.rows)]>>
                          \o SubSeq(t.rows, 1, Len(t.rows) - 1)]

add_variable(table, f) == Concat(table, new_row(f), ExportColumns)

\* faulty variant: of the rows of one name only the first is dropped
delete_rows_first_match(df, names) ==
  [columns |-> df.columns,
   rows |-> LET Earlier(i) ==
                  \E j \in 1..(i - 1) :
                     df.rows[j]["Variable"] = df.rows[i]["Variable"]
                Kept == {i \in DOMAIN df.rows :
                           df.rows[i]["Variable"] \notin names \/ Earlier(i)}
                Nth(k) == CHOOSE i \in Kept :
                             Cardinality({j \in Kept : j <= i}) = k
            IN  [k \in 1..Cardinality(Kept) |-> df.rows[Nth(k)]]]

\* df[~df["Variable"].isin(to_delete)].reset_index(drop=True)
delete_rows(df, names) ==
  [columns |-> df.columns,
   rows |-> SelectSeq(df.rows, LAMBDA r : r["Variable"] \notin names)]

(***************************************************************************)
(* Inputs of the user.                                                     *)
(***************************************************************************)
\* a file pd.read_csv cannot parse
BadCsv == [ok |-> FALSE, header |-> <<>>, records |-> <<>>]

\* a CSV that parses but has no Variable column
NoVariableCsv ==
  [ok |-> TRUE,
   header |-> <<"Name", "Code">>,
   records |-> << [Name |-> "Heart Rate", Code |-> "E-HR-001"] >>]

\* a CSV with a Variable column: a padded lower-case catalogue name, an
\* upper-case catalogue name and a field pandas reads as missing
NamesCsv ==
  [ok |-> TRUE,
   header |-> <<"Variable">>,
   records |->
     << [Variable |-> <<" ", "h", "e", "a", "r", "t", " ", "r", "a", "t", "e", " ">>],
        [Variable |-> <<"M", "O", "T", "O", "R", " ", "F", "U", "N", "C", "T", "I", "O", "N", " ", "(", "P", "D", "M", "S", " ", "O", "N", "L", "Y", ")">>],
        [Variable |-> <<"N", "A">>] >>]

Lactate == <<"L", "a", "c", "t", "a", "t", "e">>

\* what the user types into the add form: no name; no ID code; a name, an
\* organ system and a group of one space; a second row named like a
\* catalogue variable, organ system and group left empty
AddInputs ==
  { [var_name |-> <<>>, source |-> "EPIC", var_id |-> "L-1", unit |-> "bpm",
     organ_system |-> "", group |-> ""],
    [var_name |-> Lactate, source |-> "EPIC", var_id |-> "", unit |-> "bpm",
     organ_system |-> "", group |-> ""],
    [var_name |-> <<" ">>, source |-> "Both", var_id |-> " ", unit |-> "mg/dL",
     organ_system |-> " ", group |-> " "],
    [var_name |-> <<"H", "e", "a", "r", "t", " ", "R", "a", "t", "e">>,
     source |-> "PDMS", var_id |-> "P-HR-002", unit |-> "bpm",
     organ_system |-> "", group |-> ""] }

\* the catalogue variables the user ticks or unticks by hand at step 3: one
\* with both identifiers, the EPIC-only and the PDMS-only one
TickIds == {"hr-001", "mf-epic-001", "mf-pdms-001"}

\* a table as an earlier session left it: the EPIC-only variable selected,
\* then the two rows of AddInputs that the form accepts added by hand
PreviousTable ==
  LET Accepted(name) == CHOOSE f \in AddInputs :
                          f.var_name = name /\ ~add_rejected(f)
  IN  add_variable(
        add_variable(build_export_table(<<"mf-epic-001">>), Accepted(<<" ">>)),
        Accepted(<<"H", "e", "a", "r", "t", " ", "R", "a", "t", "e">>))

\* the CSV file exported from it ("a CSV file previously exported from this
\* tool")
PreviousExport == ToCsv(PreviousTable)

UploadFiles == {BadCsv, NoVariableCsv, NamesCsv, PreviousExport}

\* The state a script run starts from once the navbar has run with step st:
\* the session as it is, nothing of the step rendered yet.
Blank(st, ev) ==
  [step |-> st,
   project_type |-> project_type,
   imported_config |-> imported_config,
   selected_sources |-> selected_sources,
   selected_variable_ids |-> selected_variable_ids,
   export_table |-> export_table,
   screen |-> st,
   back_shown |-> step > 1,
   next_enabled |-> FALSE,
   uploader_shown |-> FALSE,
   uploaded_file |-> None,
   boxes_shown |-> {},
   boxes_checked |-> {},
   delete_shown |-> FALSE,
   delete_options |-> <<>>,
   to_delete |-> {},
   csv_data |-> None,
   message |-> "",
   crashed |-> FALSE,
   last |-> ev]

(***************************************************************************)
(* The script.  b is the state after the navbar, ev the interaction that   *)
(* triggered the run.  A widget returns the value the interaction gave it, *)
(* else the value it kept from the last run if it was rendered there, else *)
(* the default the script passes.                                          *)
(***************************************************************************)
can_next_step1(pt, config) ==
  ~(pt = "Load existing configuration" /\ config = None)

\* faulty variant: the step 2 Next button is never disabled
can_next_step2_always(epic_checked, pdms_checked) == TRUE

\* faulty variant: the gate reads the sources stored by the run before
can_next_step2_stored(epic_checked, pdms_checked) ==
  selected_sources["EPIC"] \/ selected_sources["PDMS"]

can_next_step2(epic_checked, pdms_checked) == epic_checked \/ pdms_checked

can_next_step3(selected_ids) == Cardinality(selected_ids) > 0

\* STEP 1 - Setup
Step1(b, ev) ==
  LET pt == IF ev.type = "radio" THEN ev.value ELSE b.project_type
      shown == pt = "Load existing configuration"
      file == IF ~shown THEN None
              ELSE IF ev.type = "upload" THEN ev.file
              ELSE IF screen = 1 /\ uploader_shown THEN uploaded_file
              ELSE None
      parsed == file # None /\ file.ok
      config == IF parsed THEN ReadCsv(file) ELSE b.imported_config
      can_next == can_next_step1(pt, config)
      clicked == ev.type = "next_step1"
      key_error == clicked /\ config # None /\ ~HasVariableColumn(config)
      r1 == [b EXCEPT !.project_type = pt,
                      !.uploader_shown = shown,
                      !.uploaded_file = file,
                      !.imported_config = config,
                      !.next_enabled = can_next,
                      !.message = IF ~shown THEN ""
                                  ELSE IF file = None THEN "upload_info"
                                  ELSE IF parsed THEN "csv_loaded"
                                  ELSE "csv_error"]
  IN  IF ~clicked THEN r1
      ELSE IF key_error THEN [r1 EXCEPT !.crashed = TRUE, !.message = "KeyError"]
      ELSE [r1 EXCEPT !.selected_variable_ids =
                         IF config # None THEN preselected_ids(config)
                         ELSE b.selected_variable_ids,
                      !.step = go_next(b.step)]

\* faulty variant: the step 2 Next handler resets the export table
Step2_resetting_table(b, ev) ==
  LET box(name) == IF ev.type = "source" /\ ev.name = name
                   THEN ev.value
                   ELSE b.selected_sources[name]
      r1 == [b EXCEPT !.selected_sources =
                         [EPIC |-> box("EPIC"), PDMS |-> box("PDMS")],
                      !.next_enabled = box("EPIC") \/ box("PDMS")]
  IN  IF ev.type = "next_step2"
      THEN [r1 EXCEPT !.step = go_next(b.step),
                      !.export_table = [columns |-> InitColumns, rows |-> <<>>]]
      ELSE r1

\* STEP 2 - Data Source Selection
Step2(b, ev) ==
  LET box(name) == IF ev.type = "source" /\ ev.name = name
                   THEN ev.value
                   ELSE b.selected_sources[name]
      epic_checked == box("EPIC")
      pdms_checked == box("PDMS")
      can_next == can_next_step2(epic_checked, pdms_checked)
      r1 == [b EXCEPT !.selected_sources =
                         [EPIC |-> epic_checked, PDMS |-> pdms_checked],
                      !.next_enabled = can_next]
  IN  IF ev.type = "next_step2" THEN [r1 EXCEPT !.step = go_next(b.step)]
      ELSE r1

\* faulty variant: a checkbox rendered anew starts unticked (no value= default)
ticked_ids_no_default(b, ev, df) ==
  {id \in IdsOf(df) :
     IF ev.type = "tick" /\ ev.id = id THEN ev.value
     ELSE screen = 3 /\ id \in boxes_shown /\ id \in boxes_checked}

\* faulty variant: selected ids without a checkbox stay selected
ticked_ids_keep_hidden(b, ev, df) ==
  {id \in IdsOf(df) :
     IF ev.type = "tick" /\ ev.id = id THEN ev.value
     ELSE IF screen = 3 /\ id \in boxes_shown THEN id \in boxes_checked
     ELSE id \in b.selected_variable_ids}
  \cup (b.selected_variable_ids \ IdsOf(df))

\* ids ticked once all checkboxes of df are rendered
ticked_ids(b, ev, df) ==
  {id \in IdsOf(df) :
     IF ev.type = "tick" /\ ev.id = id THEN ev.value
     ELSE IF screen = 3 /\ id \in boxes_shown THEN id \in boxes_checked
     ELSE id \in b.selected_variable_ids}

\* STEP 3 - Map Variables
Step3(b, ev, order) ==
  LET df == filter_catalogue_by_sources(b.selected_sources)
      selected_ids == ticked_ids(b, ev, df)
      can_next == can_next_step3(selected_ids)
      r1 == [b EXCEPT !.boxes_shown = IdsOf(df),
                      !.boxes_checked = selected_ids,
                      !.selected_variable_ids = selected_ids,
                      !.next_enabled = can_next]
  IN  IF ev.type = "next_step3"
      THEN [r1 EXCEPT !.export_table = build_export_table(order),
                      !.step = go_next(b.step)]
      ELSE r1

\* STEP 4 - Review & Export
Step4(b, ev) ==
  LET submitted == ev.type = "add"
      rejected == submitted /\ add_rejected(ev.fields)
      added == submitted /\ ~rejected
      table1 == IF added THEN add_variable(b.export_table, ev.fields)
                ELSE b.export_table
      \* df is refreshed after an add, not after a delete
      df == table1
      shown == ~DfEmpty(df)
      options == IF shown THEN VariableColumn(df) ELSE <<>>
      kept == screen = 4 /\ delete_shown /\ delete_options = options
      selection == IF ~shown \/ ~kept THEN {}
                   ELSE IF ev.type = "select" THEN ev.names
                   ELSE to_delete
      deleted == ev.type = "delete" /\ shown
      table2 == IF deleted THEN delete_rows(df, selection) ELSE table1
  IN  [b EXCEPT !.export_table = table2,
                !.delete_shown = shown,
                !.delete_options = options,
                !.to_delete = selection,
                !.csv_data = IF ~DfEmpty(df) THEN ToCsv(df) ELSE None,
                !.message = IF rejected THEN "add_warning"
                            ELSE IF added THEN "added"
                            ELSE IF deleted THEN "deleted"
                            ELSE ""]

\* One run of the script for interaction ev.
Run(ev, order) ==
  LET st == IF ev.type = "back_button" /\ step > 1 THEN go_back(step) ELSE step
      b == Blank(st, ev)
  IN  IF st = 1 THEN Step1(b, ev)
      ELSE IF st = 2 THEN Step2(b, ev)
      ELSE IF st = 3 THEN Step3(b, ev, order)
      ELSE Step4(b, ev)

\* the session and the screen become what the run r left
Render(run) ==
  \E r \in {run} :
     /\ step' = r.step
     /\ project_type' = r.project_type
     /\ imported_config' = r.imported_config
     /\ selected_sources' = r.selected_sources
     /\ selected_variable_ids' = r.selected_variable_ids
     /\ export_table' = r.export_table
     /\ screen' = r.screen
     /\ back_shown' = r.back_shown
     /\ next_enabled' = r.next_enabled
     /\ uploader_shown' = r.uploader_shown
     /\ uploaded_file' = r.uploaded_file
     /\ boxes_shown' = r.boxes_shown
     /\ boxes_checked' = r.boxes_checked
     /\ delete_shown' = r.delete_shown
     /\ delete_options' = r.delete_options
     /\ to_delete' = r.to_delete
     /\ csv_data' = r.csv_data
     /\ message' = r.message
     /\ crashed' = r.crashed
     /\ last' = r.last

NoOrder == <<>>

(***************************************************************************)
(* Initial state: init_state() and the first run of the script.            *)
(***************************************************************************)
Init ==
  /\ step = 1
  /\ project_type = "New project"
  /\ imported_config = None
  /\ selected_sources = [EPIC |-> FALSE, PDMS |-> FALSE]
  /\ selected_variable_ids = {}
  /\ export_table = [columns |-> InitColumns, rows |-> <<>>]
  /\ screen = 1
  /\ back_shown = FALSE
  /\ next_enabled = TRUE
  /\ uploader_shown = FALSE
  /\ uploaded_file = None
  /\ boxes_shown = {}
  /\ boxes_checked = {}
  /\ delete_shown = FALSE
  /\ delete_options = <<>>
  /\ to_delete = {}
  /\ csv_data = None
  /\ message = ""
  /\ crashed = FALSE
  /\ last = [type |-> "start"]

(***************************************************************************)
(* The interactions.                                                       *)
(***************************************************************************)
\* the Back button of the navbar
ClickBack ==
  /\ back_shown
  /\ Render(Run([type |-> "back_button"], NoOrder))

\* any widget of a screen whose step is no longer the session's step: the
\* run renders the session's step and the widget is not part of it
StaleInteraction ==
  /\ screen # step
  /\ Render(Run([type |-> "stale"], NoOrder))

SetProjectType(pt) ==
  /\ screen = 1 /\ step = 1
  /\ pt # project_type
  /\ Render(Run([type |-> "radio", value |-> pt], NoOrder))

\* put a file into the uploader, or (file = None) take it out
Upload(file) ==
  /\ screen = 1 /\ step = 1
  /\ uploader_shown
  /\ file # uploaded_file
  /\ Render(Run([type |-> "upload", file |-> file], NoOrder))

ClickNext1 ==
  /\ screen = 1 /\ step = 1
  /\ next_enabled
  /\ Render(Run([type |-> "next_step1"], NoOrder))

ToggleSource(name) ==
  /\ screen = 2 /\ step = 2
  /\ Render(Run([type |-> "source", name |-> name,
                 value |-> ~selected_sources[name]], NoOrder))

ClickNext2 ==
  /\ screen = 2 /\ step = 2
  /\ next_enabled
  /\ Render(Run([type |-> "next_step2"], NoOrder))

ToggleVariable(id) ==
  /\ screen = 3 /\ step = 3
  /\ id \in boxes_shown
  /\ id \notin boxes_checked => Cardinality(boxes_checked) < MaxSelected
  /\ Render(Run([type |-> "tick", id |-> id,
                 value |-> id \notin boxes_checked], NoOrder))

ClickNext3 ==
  /\ screen = 3 /\ step = 3
  /\ next_enabled
  /\ \E order \in Orders(boxes_checked) :
       Render(Run([type |-> "next_step3"], order))

SubmitAdd(fields) ==
  /\ screen = 4 /\ step = 4
  /\ Len(export_table.rows) < MaxRows
  /\ Render(Run([type |-> "add", fields |-> fields], NoOrder))

SelectToDelete(names) ==
  /\ screen = 4 /\ step = 4
  /\ delete_shown
  /\ names # to_delete
  /\ Render(Run([type |-> "select", names |-> names], NoOrder))

\* the Delete button is enabled when the multiselect is not empty
ClickDelete ==
  /\ screen = 4 /\ step = 4
  /\ delete_shown
  /\ to_delete # {}
  /\ Render(Run([type |-> "delete"], NoOrder))

\* the download button hands over the data registered by the last run and
\* re-runs the script
Download ==
  /\ screen = 4 /\ step = 4
  /\ csv_data # None
  /\ Render(Run([type |-> "download"], NoOrder))

Next ==
  \/ ClickBack
  \/ StaleInteraction
  \/ \E pt \in {"New project", "Load existing configuration"} : SetProjectType(pt)
  \/ \E file \in UploadFiles \cup {None} : Upload(file)
  \/ ClickNext1
  \/ \E name \in {"EPIC", "PDMS"} : ToggleSource(name)
  \/ ClickNext2
  \/ \E id \in TickIds : ToggleVariable(id)
  \/ ClickNext3
  \/ \E fields \in AddInputs : SubmitAdd(fields)
  \/ \E names \in SUBSET Range(delete_options) : SelectToDelete(names)
  \/ ClickDelete
  \/ Download

Spec == Init /\ [][Next]_vars

(***************************************************************************)
(* Properties.                                                             *)
(***************************************************************************)
\* the gate of the wizard's step k, on the session
Gate(k) ==
  IF k = 1
  THEN \/ project_type = "New project"
       \/ (project_type = "Load existing configuration" /\ imported_config # None)
  ELSE IF k = 2
  THEN selected_sources["EPIC"] \/ selected_sources["PDMS"]
  ELSE IF k = 3
  THEN selected_variable_ids # {}
  ELSE FALSE

NextClicks == {"next_step1", "next_step2", "next_step3"}

\* C1: for every step k in 1..3, step goes from k to k+1 only in a state
\* where the gate of step k holds, and only by the Next button of step k;
\* where the gate of the step on screen is false its Next button is
\* disabled, so no advance is handled there and nothing changes.
C1_AdvanceGated ==
  [][/\ (step' = step + 1) =>
          (Gate(step) /\ last'.type = "next_step" \o ToString(step))
     /\ (screen = step /\ step \in 1..3 /\ ~Gate(step)) => ~next_enabled
     /\ (last'.type \in NextClicks) => Gate(step)
    ]_vars

\* C1 witness: an advance out of step 3 has been handled with its gate true
C1_Witness ==
  /\ last.type = "next_step3"
  /\ step = 4
  /\ selected_variable_ids # {}

\* C2: the Back button, handled at a step > 1, decrements step by exactly 1
\* (not below 1) and leaves selected_sources, selected_variable_ids and
\* export_table as they were, the render of the step gone back to included.
C2_RetreatKeepsState ==
  [][(last'.type = "back_button" /\ step > 1) =>
       /\ step' = step - 1
       /\ step' >= 1
       /\ selected_sources' = selected_sources
       /\ selected_variable_ids' = selected_variable_ids
       /\ export_table' = export_table
    ]_vars

\* C2 witness: Back from step 4 has re-rendered step 3 with a selection and
\* a table in the session
C2_Witness ==
  /\ last.type = "back_button"
  /\ step = 3 /\ screen = 3
  /\ selected_variable_ids # {}
  /\ export_table.rows # <<>>

\* C3: the step 3 to step 4 transition leaves a table with exactly one row
\* per selected id, every row Published, whatever rows (added by hand or
\* from an earlier visit) the table had before.
C3_RebuiltFromScratch ==
  [][(step = 3 /\ step' = 4) =>
       LET rows == export_table'.rows
       IN  /\ Len(rows) = Cardinality(selected_variable_ids')
           /\ \A id \in selected_variable_ids' :
                Cardinality({i \in DOMAIN rows :
                               rows[i]["Variable"] = CatalogueRow(id).name}) = 1
           /\ \A i \in DOMAIN rows :
                /\ rows[i]["Status"] = "Published"
                /\ \E id \in selected_variable_ids' :
                     rows[i]["Variable"] = CatalogueRow(id).name
    ]_vars

\* C3 witness: the transition has just built a table of two rows
C3_Witness ==
  /\ last.type = "next_step3"
  /\ step = 4
  /\ Cardinality(selected_variable_ids) = 2
  /\ Len(export_table.rows) = 2

\* a catalogue name and a cell of a Variable column match: equal once both
\* are trimmed and lower-cased
NameMatches(name, cell) ==
  StrLower(StrStrip(name)) = StrLower(StrStrip(Str(cell)))

\* the catalogue ids whose name matches some Variable value of table df
MatchingIds(df) ==
  {id \in CatalogueIds :
     \E i \in DOMAIN df.rows :
        NameMatches(CatalogueRow(id).name, df.rows[i]["Variable"])}

\* the table read back from the CSV exported from PreviousTable
PreviousImport == ReadCsv(ToCsv(PreviousTable))

\* C4: when the session leaves step 1 with an imported configuration,
\* selected_variable_ids becomes exactly the catalogue ids whose name matches
\* (case-insensitively, trimmed) a Variable value of it; when that
\* configuration is the re-import of the CSV exported from a table, these are
\* the ids whose names appear in the Variable column of that table; without
\* an imported configuration selected_variable_ids is left as it was.
C4_PreselectionByName ==
  [][(step = 1 /\ step' = 2) =>
       /\ imported_config' # None =>
            selected_variable_ids' = MatchingIds(imported_config')
       /\ imported_config' = PreviousImport =>
            selected_variable_ids' = MatchingIds(PreviousTable)
       /\ imported_config' = None =>
            selected_variable_ids' = selected_variable_ids
    ]_vars

\* C4 witness: step 1 has been left with the re-imported export, and the
\* variables named in it (one by a hand-added row) are preselected
C4_Witness ==
  /\ last.type = "next_step1"
  /\ step = 2
  /\ uploaded_file = PreviousExport
  /\ imported_config = PreviousImport
  /\ selected_variable_ids = {"mf-epic-001", "hr-001"}

\* C5 (as claimed): after an upload that fails to parse, imported_config is
\* unset and, the project type being "Load existing configuration", the
\* Next button of step 1 is disabled.
C5_FailedImportLeavesUnset ==
  (last.type = "upload" /\ message = "csv_error") =>
     (imported_config = None /\ ~next_enabled)

\* C6 (as claimed): no run ends in an uncaught exception, and a handled
\* click on the Next button of step 1 leaves the session at step 2.
C6_NoFatalError ==
  /\ ~crashed
  /\ last.type = "next_step1" => step = 2

\* the texts of the model that are empty or whitespace only
BlankTexts == {"", " "}

IsBlankName(s) == StrStrip(s) = <<>>

\* C7 (as claimed): an add whose name or ID code is blank (empty or
\* whitespace only) reports a validation error and leaves export_table
\* unchanged.
C7_BlankAddRejected ==
  [][(last'.type = "add"
       /\ (IsBlankName(last'.fields.var_name) \/ last'.fields.var_id \in BlankTexts))
      => (message' = "add_warning" /\ export_table' = export_table)
    ]_vars

\* the rows of sequence rows whose Variable is not in names, in order
RowsKept(rows, names) ==
  LET Kept == {i \in DOMAIN rows : rows[i]["Variable"] \notin names}
      Nth(k) == CHOOSE i \in Kept : Cardinality({j \in Kept : j <= i}) = k
  IN  [k \in 1..Cardinality(Kept) |-> rows[Nth(k)]]

C9_DeleteRows ==
  [][(last'.type = "delete") =>
       /\ export_table'.rows = RowsKept(export_table.rows, to_delete')
       /\ export_table'.columns = export_table.columns
       /\ to_delete' = {} => export_table' = export_table
       /\ ~crashed'
       /\ delete_shown' => message' = "deleted"
    ]_vars

\* C9 witness: of three rows, the two named "Heart Rate" have been deleted
\* together and the third is left
C9_Witness ==
  /\ last.type = "delete"
  /\ Len(delete_options) = 3
  /\ Cardinality(to_delete) = 1
  /\ Cardinality({i \in DOMAIN delete_options : delete_options[i] \in to_delete}) = 2
  /\ Len(export_table.rows) = 1

\* C10 (as claimed): whenever a CSV export is offered, it holds one record
\* per row of the session's export_table as it stands after the run.
C10_ExportIsCurrentTable ==
  csv_data # None => csv_data.records = ToCsv(export_table).records

\* C11: whenever a CSV export is offered, its columns are exactly Variable,
\* Source, ID, Unit, Organ_System, Group, Status, in this order; the
\* "Organ System" column of the initial table is never among them.  The
\* table of the session has these columns whenever step 4 is the session's
\* step.
C11_ExportColumns ==
  /\ csv_data # None =>
       /\ csv_data.header = ExportColumns
       /\ "Organ System" \notin Range(csv_data.header)
       /\ \A i \in DOMAIN csv_data.records :
            DOMAIN csv_data.records[i] = Range(ExportColumns)
  /\ step = 4 => export_table.columns = ExportColumns

\* C11 witness: an export is offered right after a row was added by hand to
\* a table that had been emptied by a delete
C11_Witness ==
  /\ csv_data # None
  /\ last.type = "add" /\ message = "added"
  /\ Len(export_table.rows) = 1
  /\ csv_data.header = ExportColumns

\* the ids the claim names for each combination of the two flags
SeedIds ==
  {"hr-001", "bp-001", "co-001", "qt-001", "spo2-001", "rr-001", "gcs-001",
   "mf-epic-001", "mf-pdms-001"}

ExpectedIds(epic, pdms) ==
  IF epic /\ pdms THEN SeedIds
  ELSE IF epic THEN SeedIds \ {"mf-pdms-001"}
  ELSE IF pdms THEN SeedIds \ {"mf-epic-001"}
  ELSE SeedIds

\* the rows the claim's predicate selects for each combination
ExpectedRows(epic, pdms) ==
  {i \in DOMAIN CATALOGUE_DF :
     IF epic /\ pdms
     THEN CATALOGUE_DF[i].epic_id # "" \/ CATALOGUE_DF[i].pdms_id # ""
     ELSE IF epic THEN CATALOGUE_DF[i].epic_id # ""
     ELSE IF pdms THEN CATALOGUE_DF[i].pdms_id # ""
     ELSE TRUE}

\* C12: for each of the four combinations of the EPIC and PDMS flags the
\* filter returns, in catalogue order, exactly the rows of the stated
\* predicate: all 9 for both, the 8 without mf-pdms-001 for EPIC only, the 8
\* without mf-epic-001 for PDMS only, the whole catalogue for neither; and
\* the checkboxes rendered at step 3 are those of the session's combination.
C12_FilterBySources ==
  /\ \A epic, pdms \in BOOLEAN :
       LET df == filter_catalogue_by_sources([EPIC |-> epic, PDMS |-> pdms])
       IN  /\ IdsOf(df) = ExpectedIds(epic, pdms)
           /\ Len(df) = Cardinality(ExpectedIds(epic, pdms))
           /\ Len(df) = (IF epic = pdms THEN 9 ELSE 8)
           /\ {df[i] : i \in DOMAIN df} =
                {CATALOGUE_DF[i] : i \in ExpectedRows(epic, pdms)}
  /\ screen = 3 =>
       boxes_shown = ExpectedIds(selected_sources["EPIC"], selected_sources["PDMS"])

\* C12 witness: step 3 is rendered with PDMS only and shows 8 checkboxes,
\* none for mf-epic-001
C12_Witness ==
  /\ screen = 3
  /\ ~selected_sources["EPIC"] /\ selected_sources["PDMS"]
  /\ Cardinality(boxes_shown) = 8
  /\ "mf-epic-001" \notin boxes_shown

\* C13: step is always in 1..4, every change of step is by exactly +1 or -1,
\* and step 4 is entered from step 3 only.
C13_LinearWizard ==
  [][/\ step \in 1..4
     /\ step' \in 1..4
     /\ step' # step => (step' = step + 1 \/ step' = step - 1)
     /\ (step' = 4 /\ step # 4) => step = 3
    ]_vars

\* C13 witness: the wizard has gone back from step 3 to step 2
C13_Witness ==
  /\ last.type = "back_button"
  /\ step = 2 /\ screen = 2
  /\ boxes_shown = {}
  /\ selected_variable_ids # {}

\* a record with neither identifier; the seed catalogue has none
RecordWithoutIds ==
  [id |-> "none-001",
   name |-> <<"N", "o", " ", "I", "d">>,
   organ_system |-> "General", group |-> "General",
   epic_id |-> "", pdms_id |-> "", unit |-> "score"]

\* row is the export row the claim describes for catalogue record rec
DerivedFrom(rec, row) ==
  /\ row["Status"] = "Published"
  /\ row["Variable"] = rec.name
  /\ row["Unit"] = rec.unit
  /\ row["Organ_System"] = rec.organ_system
  /\ row["Group"] = rec.group
  /\ (rec.epic_id # "" /\ rec.pdms_id # "") =>
       (row["Source"] = "Both" /\ row["ID"] = rec.epic_id \o " / " \o rec.pdms_id)
  /\ (rec.epic_id # "" /\ rec.pdms_id = "") =>
       (row["Source"] = "EPIC" /\ row["ID"] = rec.epic_id)
  /\ (rec.epic_id = "" /\ rec.pdms_id # "") =>
       (row["Source"] = "PDMS" /\ row["ID"] = rec.pdms_id)
  /\ (rec.epic_id = "" /\ rec.pdms_id = "") => row["Source"] = "-"

\* C14: the export row of every catalogue record (and of a record without
\* identifiers) is Published, passes name, unit, organ system and group
\* through, and has source Both / EPIC / PDMS / "-" with the ID code the
\* identifiers joined by " / ", the EPIC one or the PDMS one; in every
\* reachable state each row of export_table has status Published or New and
\* source EPIC, PDMS or Both, never "-", and each Published row is the export
\* row of a catalogue record.
C14_ExportRowDerivation ==
  /\ \A rec \in Range(CATALOGUE_DF) \cup {RecordWithoutIds} :
       DerivedFrom(rec, to_export_row(rec))
  /\ \A rec \in Range(CATALOGUE_DF) : to_export_row(rec)["Source"] # "-"
  /\ \A i \in DOMAIN export_table.rows :
       LET row == export_table.rows[i]
       IN  /\ row["Status"] \in {"Published", "New"}
           /\ row["Source"] \in {"EPIC", "PDMS", "Both", "-"}
           /\ row["Source"] # "-"
           /\ row["Status"] = "Published" =>
                \E rec \in Range(CATALOGUE_DF) : DerivedFrom(rec, row)

\* C14 witness: the table holds the Published rows of a variable with both
\* identifiers and of the EPIC-only variable, and a New row
C14_Witness ==
  /\ step = 4 /\ screen = 4
  /\ Len(export_table.rows) = 3
  /\ \E i \in DOMAIN export_table.rows :
       /\ export_table.rows[i]["Source"] = "Both"
       /\ export_table.rows[i]["ID"] = "E-HR-001 / P-HR-001"
       /\ export_table.rows[i]["Status"] = "Published"
  /\ \E i \in DOMAIN export_table.rows :
       /\ export_table.rows[i]["Source"] = "EPIC"
       /\ export_table.rows[i]["ID"] = "E-MF-001"
       /\ export_table.rows[i]["Status"] = "Published"
  /\ \E i \in DOMAIN export_table.rows : export_table.rows[i]["Status"] = "New"

\* C15: in every state with step >= 3 at least one of EPIC / PDMS is
\* selected, so step 3 never filters with neither selected; this holds after
\* going back to step 2, changing the sources and advancing again.
C15_SourceSelectedFromStep3 ==
  /\ step >= 3 => (selected_sources["EPIC"] \/ selected_sources["PDMS"])
  /\ screen >= 3 => (selected_sources["EPIC"] \/ selected_sources["PDMS"])

\* C15 witness: step 3 is rendered with PDMS only, while the table of an
\* earlier visit to step 4 still holds the EPIC-only variable: the sources
\* were changed at step 2 after going back
C15_Witness ==
  /\ step = 3 /\ screen = 3
  /\ ~selected_sources["EPIC"] /\ selected_sources["PDMS"]
  /\ \E i \in DOMAIN export_table.rows :
       /\ export_table.rows[i]["Source"] = "EPIC"
       /\ export_table.rows[i]["Status"] = "Published"

\* ids of the catalogue rows the filter returns for the session's sources
FilteredIds == IdsOf(filter_catalogue_by_sources(selected_sources))

\* the catalogue record has an identifier in a selected source
InSelectedSource(rec) ==
  \/ (selected_sources["EPIC"] /\ rec.epic_id # "")
  \/ (selected_sources["PDMS"] /\ rec.pdms_id # "")

\* C16: once step 3 has been rendered (and from then on through step 4),
\* selected_variable_ids is a subset of the ids the filter returns for the
\* session's sources: ids preselected by an import or kept from an earlier
\* visit that the sources exclude are dropped; and while the session is at
\* step 4 every Published row of export_table is a catalogue variable with
\* an identifier in a selected source.
C16_SelectionWithinFilter ==
  /\ screen \in {3, 4} => selected_variable_ids \subseteq FilteredIds
  /\ step = 4 =>
       \A i \in DOMAIN export_table.rows :
          export_table.rows[i]["Status"] = "Published" =>
             \E rec \in Range(CATALOGUE_DF) :
                /\ rec.name = export_table.rows[i]["Variable"]
                /\ rec.id \in FilteredIds
                /\ InSelectedSource(rec)

\* C16 witness: step 3 is rendered with EPIC only after an import that
\* preselects the PDMS-only variable; that id has been dropped, the other
\* preselected id is kept
C16_Witness ==
  /\ screen = 3 /\ step = 3
  /\ selected_sources["EPIC"] /\ ~selected_sources["PDMS"]
  /\ imported_config # None
  /\ HasVariableColumn(imported_config)
  /\ "mf-pdms-001" \in MatchingIds(imported_config)
  /\ "mf-pdms-001" \notin selected_variable_ids
  /\ "hr-001" \in selected_variable_ids

\* C17: export_table changes only in the step 3 to step 4 transition and in
\* an add or delete handled at step 4; the project type, an import, the
\* sources, a tick, Back and the advances out of steps 1 and 2 leave it as it
\* is, and the advance out of step 2 changes nothing of the session but step.
C17_ExportTableFrame ==
  [][/\ export_table' # export_table =>
          \/ (step = 3 /\ step' = 4 /\ last'.type = "next_step3")
          \/ (step = 4 /\ step' = 4 /\ last'.type \in {"add", "delete"})
     /\ last'.type \in {"radio", "upload", "source", "tick", "back_button",
                        "next_step1", "next_step2", "stale", "select",
                        "download"} =>
          export_table' = export_table
     /\ last'.type = "next_step2" =>
          /\ step' = step + 1
          /\ UNCHANGED <<project_type, imported_config, selected_sources,
                         selected_variable_ids, export_table>>
    ]_vars

\* C17 witness: the advance out of step 2 has been handled with a table from
\* an earlier visit to step 4 in the session
C17_Witness ==
  /\ last.type = "next_step2"
  /\ step = 3
  /\ export_table.rows # <<>>

\* C18 (as claimed): after every interaction the screen rendered is the
\* screen of the session's step.
C18_RenderFollowsStep ==
  screen = step

=============================================================================
